---- MODULE Spec2Model ----
(***************************************************************************)
(* DownloadManager (src/core.py): the download queue, the DownloadState    *)
(* flags, the caller-side operations (add_to_queue, remove_from_queue,     *)
(* clear_queue, start_download, cancel_download) and the worker threads    *)
(* that start_download spawns on process_queue / run_download /            *)
(* handle_error.  Each worker is a program counter over the lines of       *)
(* process_queue; the Fetcher (yt-dlp) is the environment: every           *)
(* extract_info / download call returns one of its outcomes.               *)
(***************************************************************************)
EXTENDS Integers, Sequences, FiniteSets, TLC

\* ---------------------------------------------------------------- constants
MAX_RETRIES == 3
RETRY_DELAY == 5
RATE_LIMIT_BASE == 60
RATE_LIMIT_CAP == 300

\* ------------------------------------------------------------------- bounds
\* Specification Spec: the caller and the worker thread of one start_download.
\* Jobs that exist in one behaviour (loaded from queue_state.json or added).
MaxJobs == 2
\* Entries of queue_state.json at start.
MaxLoaded == 1
\* start_download calls that spawn a worker thread.
MaxStarts == 1
\* cancel_download calls.
MaxCancels == 1
\* Fetcher calls (extract_info / download) that fail.
MaxFails == 4
\* remove_from_queue calls with an index in range (0: only out-of-range calls).
MaxRemoves == 1
\* Jobs added with a destination or tool path that fails validate_paths.
MaxInvalid == 0
\* Seconds that pass in one step of a thread in time.sleep (300: any sleep of
\* run_download is over in one step).
SleepStep == 300
\* Whether the application may exit (cleanup) while a download thread runs.
ExitWhileBusy == FALSE
\* Specification SpecRace: start_download called again while a worker runs;
\* the Fetcher fails RaceFails times.
RaceJobs == 3
RaceStarts == 2
RaceCancels == 1
RaceFails == 0
RaceRemoves == 0
RaceInvalid == 0
RaceSleepStep == 300
RaceExitWhileBusy == FALSE
\* Specification SpecLog: one worker, with the callbacks' calls recorded in order.
LogJobs == 2
LogStarts == 1
LogCancels == 1
LogFails == 3
LogRemoves == 0
LogInvalid == 0
LogSleepStep == 300
LogExitWhileBusy == FALSE

\* Specification SpecApp: one worker and the application around the manager:
\* jobs with invalid paths are added, sleeps pass in steps of AppSleepStep
\* seconds, and the application may exit while the download thread runs.
AppJobs == 1
AppStarts == 1
AppCancels == 1
AppFails == 3
AppRemoves == 0
AppInvalid == 1
AppSleepStep == 5
AppExitWhileBusy == TRUE

Max(a, b) == IF a >= b THEN a ELSE b
None == 0
JobIds == 1..Max(MaxJobs, RaceJobs)
Workers == 1..Max(MaxStarts, RaceStarts)

\* Outcomes of a Fetcher call, by what run_download's handlers tell apart.
ExtractOutcomes == {"ok", "VideoUnavailable", "RateLimited", "Transient"}
DownloadOutcomes == {"ok", "RateLimited", "Transient"}

\* What a persisted queue_state.json entry may carry besides its identity:
\* the 'retries' key written by handle_error and a 'status' key.
PersistedShapes ==
    { [retries |-> 0, status |-> "Queued"],
      [retries |-> MAX_RETRIES, status |-> "Failed"],
      [retries |-> 0, status |-> "Complete"] }

VARIABLES
    download_queue,     \* deque of job ids (items are dict objects; id = identity)
    retries,            \* item['retries'] of every job object (absent = 0)
    status,             \* item['status'] of every job object ("absent" if no key)
    created,            \* number of job objects that exist so far
    queue_state_file,   \* queue_state.json: sequence of [id, retries, status]
    queue_lock,         \* None when free, else the worker holding it
    downloading,        \* DownloadState.downloading
    cancelled,          \* DownloadState.cancelled
    current_item,       \* DownloadState.current_item (shared by all workers)
    current_download,   \* job whose YoutubeDL handle is stored, None before any
    pc,                 \* per worker: position in process_queue
    item,               \* per worker: the item argument of run_download / handle_error
    attempt,            \* per worker: run_download's loop variable
    delay,              \* per worker: seconds being slept (0 when not asleep)
    left_by,            \* per worker: how its while loop ended
    \* ---- observations of the callbacks and of the environment
    observer_calls,     \* DownloadState._notify_observers invocations
    status_flip,        \* flips at every on_status invocation
    red_status,         \* per job (and None): on_status calls with colour "red"
    attempts,           \* per job: attempts that reached the Fetcher
    transient_fails,    \* per job: attempts the Fetcher failed with a non-429 error
    rate_fails,         \* per job: attempts the Fetcher failed with 'HTTP Error 429'
    popped,             \* per worker: the job its last popleft returned
    completes,          \* per worker: arguments of its on_complete calls, in order
    cancel_mid,         \* per worker: cancel_download arrived while it was mid-attempt
    cancels,            \* cancel_download calls so far
    fails,              \* failed Fetcher calls so far
    log_empty_start,    \* the log holds "Download queue is empty. Nothing to start."
    add_result,         \* what the last add_to_queue returned ("none" before any)
    remove_error,       \* remove_from_queue has raised ValueError to its caller
    outcome,            \* per job: how it left the queue for good ("none" if it has not)
    status_log,         \* the on_status / on_complete calls in order (kept if budget.log)
    exiting,            \* cleanup() has been called: the application is exiting
    aborts,             \* abort requests made to the YoutubeDL handle now stored
    invalid,            \* jobs whose destination or tool path fails validate_paths
    config_file,        \* yt_downloader_config.json
    config,             \* DownloadManager.config
    progress_event,     \* the dict yt-dlp passes to progress_hook
    progress_call,      \* what progress_hook did with it (the on_progress call)
    part_files,         \* jobs with a '*.part' file in their destination (kept if budget.disk)
    enqueued_running,   \* jobs add_to_queue took while downloading was set (kept if budget.log)
    budget              \* the environment's bounds in this behaviour

vars == << download_queue, retries, status, created, queue_state_file, queue_lock,
           downloading, cancelled, current_item, current_download,
           pc, item, attempt, delay, left_by,
           observer_calls, status_flip, red_status, attempts, transient_fails,
           rate_fails, popped, completes,
           cancel_mid, cancels, fails, log_empty_start, add_result, remove_error, outcome,
           status_log, exiting, aborts, invalid, config_file, config,
           progress_event, progress_call, part_files, enqueued_running, budget >>

queueVars == << download_queue, queue_state_file, created >>
jobVars == << retries, status >>
stateVars == << downloading, cancelled >>
workerVars == << pc, item, attempt, delay, left_by, popped >>
notifyVars == << observer_calls, status_flip, red_status, status_log, completes >>
ghostVars == << add_result, remove_error, outcome >>
envVars == << attempts, transient_fails, rate_fails, fails, budget >>
failVars == << transient_fails, rate_fails >>
cancelVars == << cancel_mid, cancels >>
configVars == << config_file, config >>
hookVars == << progress_event, progress_call >>
appVars == << exiting, aborts, invalid, configVars, hookVars, part_files, enqueued_running >>

\* ------------------------------------------------------------ persistence
\* json.dump(list(self.download_queue)): every queued dict with its keys.
Snapshot(q) ==
    [ i \in 1..Len(q) |-> [id |-> q[i], retries |-> retries[q[i]], status |-> status[q[i]]] ]

\* _load_queue_state: entries whose status is not 'Complete', in file order.
NotComplete(e) == e.status # "Complete"
LoadQueueState(file) == SelectSeq(file, NotComplete)

\* The job ids of a sequence of entries.
Ids(entries) == [ i \in 1..Len(entries) |-> entries[i].id ]

\* Files a previous run can have left: entries 1..n, each of a persisted shape.
PersistedFiles(maxlen) ==
    UNION { { [ i \in 1..n |-> [id |-> i, retries |-> f[i].retries, status |-> f[i].status] ]
              : f \in [1..n -> PersistedShapes] } : n \in 0..maxlen }

\* ------------------------------------------------------------- DownloadState
\* update_state that sets cancelled but never clears it.
UpdateStateSticky(d, c) ==
    /\ downloading' = d
    /\ cancelled' = (cancelled \/ c)
    /\ observer_calls' = observer_calls + 1

\* update_state(downloading, cancelled=False): sets both flags, notifies observers.
UpdateState(d, c) ==
    /\ downloading' = d
    /\ cancelled' = c
    /\ observer_calls' = observer_calls + 1

\* ------------------------------------------------------------ configuration
MEDIA_TYPES == {"Video", "Audio"}
VIDEO_QUALITIES == {"Best", "1080p", "720p", "480p", "360p"}
AUDIO_QUALITIES == {"128k", "192k", "256k", "320k"}
AUDIO_FORMATS == {"mp3", "aac", "wav", "m4a"}

\* What a stored field may hold: no key ("absent"), a value outside the closed
\* set ("bogus"), or some of the set's values.
StoredMediaTypes == {"absent", "bogus", "Video", "Audio"}
StoredVideoQualities == {"absent", "bogus", "Best", "720p"}
StoredAudioQualities == {"absent", "bogus", "128k", "320k"}
StoredAudioFormats == {"absent", "bogus", "mp3", "wav"}
\* How validate_ffmpeg ends on the stored ffmpeg_path: it finds a working
\* ffmpeg, or subprocess.run raises one of the two exceptions it catches, or
\* another one (PermissionError on '' or a directory, TypeError on a non-string).
FfmpegProbes == {"works", "not_found", "raises"}

\* A config with no key at all: what OrderedDict() is.
NoFields ==
    [ffmpeg |-> "not_found", media_type |-> "absent", video_resolution |-> "absent",
     audio_quality |-> "absent", audio_format |-> "absent"]

\* yt_downloader_config.json: missing, not JSON, or a JSON object.
ConfigFiles ==
    { [kind |-> k] @@ NoFields : k \in {"missing", "malformed"} }
    \cup { [kind |-> "object", ffmpeg |-> f, media_type |-> m, video_resolution |-> v,
            audio_quality |-> q, audio_format |-> a] :
              f \in FfmpegProbes, m \in StoredMediaTypes, v \in StoredVideoQualities,
              q \in StoredAudioQualities, a \in StoredAudioFormats }

\* The file the download engine's specifications start from.
DefaultConfigFile ==
    [kind |-> "object", ffmpeg |-> "works", media_type |-> "Video", video_resolution |-> "Best",
     audio_quality |-> "128k", audio_format |-> "mp3"]

\* self.config before __init__ has run line 130.
Unloaded == [kind |-> "unloaded"] @@ NoFields
EmptyConfig == [kind |-> "dict"] @@ NoFields

\* _validate_value: the value if it is one of valid_values, else the default.
ValidateValue(value, valid_values, default) ==
    IF value \in valid_values THEN value ELSE default

\* validate_config: the four media options, each validated on its own.  An
\* exception validate_ffmpeg does not catch leaves validate_config.
ValidateConfig(file) ==
    [kind |-> "dict", ffmpeg |-> file.ffmpeg,
     media_type |-> ValidateValue(file.media_type, MEDIA_TYPES, "Video"),
     video_resolution |-> ValidateValue(file.video_resolution, VIDEO_QUALITIES, "Best"),
     audio_quality |-> ValidateValue(file.audio_quality, AUDIO_QUALITIES, "128k"),
     audio_format |-> ValidateValue(file.audio_format, AUDIO_FORMATS, "mp3")]

\* load_config: the validated config of an existing JSON object; OrderedDict()
\* when the file is missing or when json.load or validate_config raised.
LoadConfigResult(file) ==
    IF file.kind = "object" /\ file.ffmpeg # "raises"
    THEN ValidateConfig(file)
    ELSE EmptyConfig

\* save_config: json.dump(self.config) into the config file.
SaveConfigResult(cfg) == [cfg EXCEPT !.kind = "object"]

\* The engine state DownloadState's two flags encode.
EngineState ==
    IF downloading THEN (IF cancelled THEN "RunningCancelled" ELSE "Running")
    ELSE (IF cancelled THEN "Cancelling" ELSE "Idle")

\* -------------------------------------------------------------- progress_hook
\* The value of a key of the progress dict: the key is absent, holds None, or
\* holds a number.
Absent == [kind |-> "absent", n |-> 0]
Null == [kind |-> "null", n |-> 0]
Num(n) == [kind |-> "int", n |-> n]

\* Sizes in the progress events: a total of ProgressTotal bytes, downloaded in
\* chunks of ProgressChunk bytes (the percentages are whole numbers).
ProgressTotal == 10
ProgressChunk == 5
TotalValues == { Absent, Null, Num(0), Num(ProgressTotal) }
DownloadedValues == { Absent } \cup { Num(k * ProgressChunk) : k \in 0..(ProgressTotal \div ProgressChunk) }

ProgressEvents ==
    { [status |-> st, total_bytes |-> t, total_bytes_estimate |-> e, downloaded_bytes |-> b] :
        st \in {"downloading", "finished"}, t \in TotalValues, e \in TotalValues,
        b \in DownloadedValues }
NoEvent ==
    [status |-> "none", total_bytes |-> Absent, total_bytes_estimate |-> Absent,
     downloaded_bytes |-> Absent]
NoCall == [kind |-> "none", percent |-> 0]
HookIdle == progress_event = NoEvent /\ progress_call = NoCall

\* dict.get(key) and dict.get(key, default); the truth value of a value; `or`.
Get(v) == IF v.kind = "absent" THEN Null ELSE v
GetDefault(v, default) == IF v.kind = "absent" THEN default ELSE v
Truthy(v) == v.kind = "int" /\ v.n # 0
Or(a, b) == IF Truthy(a) THEN a ELSE b

\* progress_hook(d): nothing for a status other than 'downloading'; else the
\* percentage (0.0 when total_bytes is falsy) and the size string, whose
\* divisions raise TypeError on None: the except clause logs it and on_progress
\* is not called.
ProgressHookResult(d) ==
    IF d.status # "downloading"
    THEN [kind |-> "ignored", percent |-> 0]
    ELSE LET total_bytes == Or(Get(d.total_bytes), GetDefault(d.total_bytes_estimate, Num(0)))
             downloaded_bytes == GetDefault(d.downloaded_bytes, Num(0))
         IN  IF total_bytes.kind = "null" \/ downloaded_bytes.kind = "null"
             THEN [kind |-> "logged", percent |-> 0]
             ELSE [kind |-> "on_progress",
                   percent |-> IF Truthy(total_bytes)
                               THEN (downloaded_bytes.n * 100) \div total_bytes.n
                               ELSE 0]

\* ---------------------------------------------------------------------- Init
\* __init__: empty deque, DownloadState(), then _load_queue_state().
InitWith(b, files) ==
    \E file \in files :
        /\ budget = b
        /\ queue_state_file = file
        /\ download_queue = Ids(LoadQueueState(file))
        /\ created = Len(file)
        /\ retries = [ j \in JobIds |-> IF j <= Len(file) THEN file[j].retries ELSE 0 ]
        /\ status = [ j \in JobIds |-> IF j <= Len(file) THEN file[j].status ELSE "absent" ]
        /\ queue_lock = None
        /\ downloading = FALSE
        /\ cancelled = FALSE
        /\ current_item = None
        /\ current_download = None
        /\ pc = [ w \in Workers |-> "unborn" ]
        /\ item = [ w \in Workers |-> None ]
        /\ attempt = [ w \in Workers |-> 0 ]
        /\ delay = [ w \in Workers |-> 0 ]
        /\ left_by = [ w \in Workers |-> "none" ]
        /\ observer_calls = 0
        /\ status_flip = FALSE
        /\ red_status = [ j \in {None} \cup JobIds |-> 0 ]
        /\ attempts = [ j \in JobIds |-> 0 ]
        /\ transient_fails = [ j \in JobIds |-> 0 ]
        /\ rate_fails = [ j \in JobIds |-> 0 ]
        /\ popped = [ w \in Workers |-> None ]
        /\ completes = [ w \in Workers |-> << >> ]
        /\ cancel_mid = [ w \in Workers |-> FALSE ]
        /\ cancels = 0
        /\ fails = 0
        /\ log_empty_start = FALSE
        /\ add_result = "none"
        /\ remove_error = FALSE
        /\ outcome = [ j \in JobIds |-> "none" ]
        /\ status_log = << >>
        /\ exiting = FALSE
        /\ aborts = 0
        /\ invalid = {}
        /\ part_files = {}
        /\ enqueued_running = {}

\* __init__ line 130: self.config = self.load_config().
Constructed(cfg_file) ==
    /\ config_file = cfg_file
    /\ config = LoadConfigResult(cfg_file)

Init ==
    /\ Constructed(DefaultConfigFile)
    /\ HookIdle
    /\ InitWith([jobs |-> MaxJobs, starts |-> MaxStarts, cancels |-> MaxCancels, fails |-> MaxFails,
              removes |-> MaxRemoves, invalid |-> MaxInvalid, tick |-> SleepStep, exit_busy |-> ExitWhileBusy,
              disk |-> FALSE, log |-> FALSE],
             PersistedFiles(MaxLoaded))

InitRace ==
    /\ Constructed(DefaultConfigFile)
    /\ HookIdle
    /\ InitWith([jobs |-> RaceJobs, starts |-> RaceStarts, cancels |-> RaceCancels, fails |-> RaceFails,
              removes |-> RaceRemoves, invalid |-> RaceInvalid, tick |-> RaceSleepStep, exit_busy |-> RaceExitWhileBusy,
              disk |-> FALSE, log |-> FALSE],
             PersistedFiles(0))

InitLog ==
    /\ Constructed(DefaultConfigFile)
    /\ HookIdle
    /\ InitWith([jobs |-> LogJobs, starts |-> LogStarts, cancels |-> LogCancels, fails |-> LogFails,
              removes |-> LogRemoves, invalid |-> LogInvalid, tick |-> LogSleepStep, exit_busy |-> LogExitWhileBusy,
              disk |-> FALSE, log |-> TRUE],
             PersistedFiles(0))

\* Worker threads started so far.
Spawned == { w \in Workers : pc[w] # "unborn" }

\* A worker thread that exists and has not left process_queue.
Active(w) == pc[w] \notin {"unborn", "done", "dead"}
\* A worker inside run_download: in a Fetcher call or in a backoff sleep.
InFetcher(w) == pc[w] \in {"extract", "download"}
InRunDownload(w) == pc[w] \in {"attempt", "extract", "download", "sleep"}

\* ------------------------------------------------------- queue operations
\* Job j is an element of the deque.
InQueue(j) == \E i \in 1..Len(download_queue) : download_queue[i] = j

\* add_to_queue without its _save_queue_state call (line 271 dropped).
AddToQueueUnsaved ==
    /\ ~exiting
    /\ queue_lock = None
    /\ created < budget.jobs
    /\ created' = created + 1
    /\ download_queue' = Append(download_queue, created + 1)
    /\ queue_state_file' = queue_state_file
    /\ add_result' = "True"
    /\ \E paths_ok \in BOOLEAN :
          /\ ~paths_ok => Cardinality(invalid) < budget.invalid
          /\ invalid' = IF paths_ok THEN invalid ELSE invalid \cup {created + 1}
    /\ enqueued_running' = IF budget.log /\ downloading
                           THEN enqueued_running \cup {created + 1} ELSE enqueued_running
    /\ UNCHANGED << jobVars, queue_lock, stateVars, current_item, current_download,
                    workerVars, notifyVars, envVars, cancelVars, exiting, aborts, configVars,
                    hookVars, part_files, log_empty_start, outcome, remove_error >>

\* add_to_queue(item): under queue_lock, append, _save_queue_state, return True.
\* The item is a fresh dict without 'retries' or 'status' keys (src/gui.py:227);
\* nothing looks at its 'path' or 'ffmpeg_path' (paths_ok: validate_paths would
\* accept them).
AddToQueue ==
    /\ ~exiting
    /\ queue_lock = None
    /\ created < budget.jobs
    /\ created' = created + 1
    /\ download_queue' = Append(download_queue, created + 1)
    /\ queue_state_file' = Snapshot(download_queue')
    /\ add_result' = "True"
    /\ \E paths_ok \in BOOLEAN :
          /\ ~paths_ok => Cardinality(invalid) < budget.invalid
          /\ invalid' = IF paths_ok THEN invalid ELSE invalid \cup {created + 1}
    /\ enqueued_running' = IF budget.log /\ downloading
                           THEN enqueued_running \cup {created + 1} ELSE enqueued_running
    /\ UNCHANGED << jobVars, queue_lock, stateVars, current_item, current_download,
                    workerVars, notifyVars, envVars, cancelVars, exiting, aborts, configVars,
                    hookVars, part_files, log_empty_start, outcome, remove_error >>

\* deque.remove(value) removes the first element equal to value and raises
\* ValueError when there is none.
DequeRemove(q, value) ==
    IF \E i \in 1..Len(q) : q[i] = value
    THEN LET i == CHOOSE k \in 1..Len(q) : q[k] = value /\ \A m \in 1..(k-1) : q[m] # value
         IN  [raised |-> FALSE, q |-> SubSeq(q, 1, i-1) \o SubSeq(q, i+1, Len(q))]
    ELSE [raised |-> TRUE, q |-> q]

\* The Python int `index` as a deque element: job objects are the ids 1.., an
\* int is no dict, so it is a value that equals no job object.
IntValue(index) == 0 - (index + 1)

\* remove_from_queue(index): under queue_lock, for an index in range it calls
\* download_queue.remove(index), i.e. removal by VALUE of the integer index.
\* The queue holds dicts, so no element equals it: ValueError leaves the with
\* block (releasing the lock) before _save_queue_state.
RemoveFromQueue(index) ==
    /\ ~exiting
    /\ queue_lock = None
    /\ (0 <= index /\ index < Len(download_queue)) => budget.removes > 0
    /\ IF 0 <= index /\ index < Len(download_queue)
       THEN LET r == DequeRemove(download_queue, IntValue(index))
            IN  /\ download_queue' = r.q
                /\ queue_state_file' = IF r.raised THEN queue_state_file ELSE Snapshot(r.q)
                /\ remove_error' = (remove_error \/ r.raised)
       ELSE UNCHANGED << download_queue, queue_state_file, remove_error >>
    /\ UNCHANGED << created, jobVars, queue_lock, stateVars, current_item, current_download,
                    workerVars, notifyVars, envVars, cancelVars, appVars, log_empty_start, add_result,
                    outcome >>

\* clear_queue(): under queue_lock, clear, _save_queue_state.
ClearQueue ==
    /\ ~exiting
    /\ queue_lock = None
    /\ download_queue' = << >>
    /\ queue_state_file' = Snapshot(download_queue')
    /\ outcome' = [ j \in JobIds |-> IF InQueue(j) THEN "removed" ELSE outcome[j] ]
    /\ UNCHANGED << created, jobVars, queue_lock, stateVars, current_item, current_download,
                    workerVars, notifyVars, envVars, cancelVars, appVars, log_empty_start, add_result, remove_error >>

\* ------------------------------------------------------- download control
\* The callbacks' record of a call (the UI's view), kept when budget.log is set.
Logged(call) == IF budget.log THEN Append(status_log, call) ELSE status_log

\* The next thread start_download would create.
NextWorker == CHOOSE w \in Workers : pc[w] = "unborn" /\ \A v \in Workers : v < w => pc[v] # "unborn"

\* start_download without its empty-queue return (lines 295-297 dropped).
StartDownloadUnguarded ==
    /\ ~exiting
    /\ Cardinality(Spawned) < budget.starts
    /\ log_empty_start' = log_empty_start
    /\ UpdateState(TRUE, FALSE)
    /\ pc' = [pc EXCEPT ![NextWorker] = "while"]
    /\ UNCHANGED << queueVars, jobVars, queue_lock, current_item, current_download,
                    item, attempt, delay, left_by, popped, status_flip, red_status, status_log, completes,
                    envVars, cancelVars, appVars, ghostVars >>

\* start_download(): returns if the deque is empty (read without the lock);
\* otherwise update_state(True) and a new daemon thread on process_queue.
StartDownload ==
    /\ ~exiting
    /\ IF download_queue = << >>
       THEN /\ log_empty_start' = TRUE
            /\ UNCHANGED << stateVars, pc, observer_calls >>
       ELSE /\ Cardinality(Spawned) < budget.starts
            /\ log_empty_start' = log_empty_start
            /\ UpdateState(TRUE, FALSE)
            /\ pc' = [pc EXCEPT ![NextWorker] = "while"]
    /\ UNCHANGED << queueVars, jobVars, queue_lock, current_item, current_download,
                    item, attempt, delay, left_by, popped, status_flip, red_status, status_log, completes,
                    envVars, cancelVars, appVars, ghostVars >>

\* cancel_download(): update_state(False, True); if a YoutubeDL handle is stored,
\* ask it to abort.  abort_ok: the handle's cancel_download() returned; then the
\* *.part files are removed and on_status("Download cancelled") fires.  Otherwise
\* the exception is caught and logged.
CancelDownload(abort_ok) ==
    /\ ~exiting
    /\ cancels < budget.cancels
    /\ cancels' = cancels + 1
    /\ UpdateState(FALSE, TRUE)
    /\ status_flip' = IF current_download # None /\ abort_ok
                      THEN ~status_flip ELSE status_flip
    /\ status_log' = IF current_download # None /\ abort_ok
                     THEN Logged([kind |-> "cancelled", job |-> None, n |-> 0])
                     ELSE status_log
    /\ cancel_mid' = [ w \in Workers |-> cancel_mid[w] \/ InFetcher(w) ]
    /\ aborts' = IF current_download # None THEN aborts + 1 ELSE aborts
    /\ part_files' = IF current_download # None /\ abort_ok /\ current_item # None
                     THEN part_files \ {current_item} ELSE part_files
    /\ UNCHANGED << queueVars, jobVars, queue_lock, current_item, current_download,
                    workerVars, red_status, completes, envVars, log_empty_start, ghostVars,
                    exiting, invalid, configVars, hookVars, enqueued_running >>

\* cleanup(): _save_queue_state() (queue_lock is not taken), save_config(), and
\* an abort request to the stored YoutubeDL handle, if any.  It is called before
\* the application exits: no caller operation follows it, the daemon threads
\* run on.
Cleanup ==
    /\ ~exiting
    /\ budget.exit_busy \/ \A w \in Workers : ~Active(w)
    /\ exiting' = TRUE
    /\ queue_state_file' = Snapshot(download_queue)
    /\ config_file' = SaveConfigResult(config)
    /\ aborts' = IF current_download # None THEN aborts + 1 ELSE aborts
    /\ UNCHANGED << download_queue, created, jobVars, queue_lock, stateVars, current_item,
                    current_download, workerVars, notifyVars, envVars, cancelVars,
                    log_empty_start, ghostVars, invalid, config, hookVars, part_files,
                    enqueued_running >>

\* ------------------------------------------------------------ process_queue
\* on_status(message, colour) about job j (None: about no job object); kind
\* names the message and n the attempt number it carries (0 if none).
OnStatus(j, colour, kind, n) ==
    /\ status_flip' = ~status_flip
    /\ red_status' = IF colour = "red" THEN [red_status EXCEPT ![j] = @ + 1] ELSE red_status
    /\ status_log' = Logged([kind |-> kind, job |-> j, n |-> n])

\* line 337: while not self.state.cancelled
While(w) ==
    /\ pc[w] = "while"
    /\ pc' = [pc EXCEPT ![w] = IF cancelled THEN "update_state" ELSE "lock"]
    /\ left_by' = [left_by EXCEPT ![w] = IF cancelled THEN "cancelled" ELSE @]
    /\ UNCHANGED << queueVars, jobVars, queue_lock, stateVars, current_item, current_download,
                    item, attempt, delay, notifyVars, envVars, cancelVars, appVars, log_empty_start, ghostVars,
                    popped >>

\* lines 338-342: with queue_lock: break on an empty deque (the lock is taken
\* and released with nothing changed), else current_item = popleft() and the
\* lock is held until Unlock.  No _save_queue_state follows the popleft.
Dequeue(w) ==
    /\ pc[w] = "lock"
    /\ queue_lock = None
    /\ IF download_queue = << >>
       THEN /\ pc' = [pc EXCEPT ![w] = "update_state"]
            /\ left_by' = [left_by EXCEPT ![w] = "exhausted"]
            /\ UNCHANGED << download_queue, current_item, queue_lock, popped >>
       ELSE /\ left_by' = left_by
            /\ popped' = [popped EXCEPT ![w] = Head(download_queue)]
            /\ current_item' = Head(download_queue)
            /\ download_queue' = Tail(download_queue)
            /\ queue_lock' = w
            /\ pc' = [pc EXCEPT ![w] = "unlock_pop"]
    /\ UNCHANGED << created, queue_state_file, jobVars, stateVars, current_download,
                    item, attempt, delay, notifyVars, envVars, cancelVars, appVars, log_empty_start, ghostVars >>

\* process_queue with run_download inside the with queue_lock block of the
\* popleft: the lock is not released before line 345.
UnlockAfterRun(w) ==
    /\ pc[w] \in {"unlock_pop", "unlock_requeue"}
    /\ queue_lock = w
    /\ queue_lock' = IF pc[w] = "unlock_pop" THEN w ELSE None
    /\ pc' = [pc EXCEPT ![w] = IF pc[w] = "unlock_pop" THEN "call_run" ELSE "clear_item"]
    /\ UNCHANGED << queueVars, jobVars, stateVars, current_item, current_download,
                    item, attempt, delay, notifyVars, envVars, cancelVars, appVars, log_empty_start, ghostVars, left_by,
                    popped >>

\* The end of a with queue_lock block: after the popleft (then line 345 is
\* next) or after handle_error's appendleft (then line 350 is next).
Unlock(w) ==
    /\ pc[w] \in {"unlock_pop", "unlock_requeue"}
    /\ queue_lock = w
    /\ queue_lock' = None
    /\ pc' = [pc EXCEPT ![w] = IF pc[w] = "unlock_pop" THEN "call_run" ELSE "clear_item"]
    /\ UNCHANGED << queueVars, jobVars, stateVars, current_item, current_download,
                    item, attempt, delay, notifyVars, envVars, cancelVars, appVars, log_empty_start, ghostVars, left_by,
                    popped >>

\* line 345: self.run_download(self.state.current_item): the shared field is
\* read again; run_download's for loop starts at attempt 1.
CallRunDownload(w) ==
    /\ pc[w] = "call_run"
    /\ item' = [item EXCEPT ![w] = current_item]
    /\ attempt' = [attempt EXCEPT ![w] = 1]
    /\ pc' = [pc EXCEPT ![w] = "attempt"]
    /\ UNCHANGED << queueVars, jobVars, queue_lock, stateVars, current_item, current_download,
                    delay, notifyVars, envVars, cancelVars, appVars, log_empty_start, ghostVars, left_by,
                    popped >>

\* -------------------------------------------------------------- run_download
Min(a, b) == IF a <= b THEN a ELSE b

\* line 399: delay = min(60 * attempt, 300)
RateLimitDelay(n) == Min(RATE_LIMIT_BASE * n, RATE_LIMIT_CAP)
\* line 406: delay = self.RETRY_DELAY * attempt
StandardDelay(n) == RETRY_DELAY * n

\* lines 394-414, the except clause of one attempt that failed with `cls`:
\* 'HTTP Error 429' -> status, sleep, continue; else below MAX_RETRIES ->
\* retry status, sleep; else line 411 (item.get: AttributeError on item = None,
\* which leaves the clause before the status), the "failed after N attempts"
\* status and raise.
AttemptFailed(w, cls) ==
    IF cls = "RateLimited"
    THEN /\ OnStatus(item[w], "orange", "rate_limited", 0)
         /\ delay' = [delay EXCEPT ![w] = RateLimitDelay(attempt[w])]
         /\ pc' = [pc EXCEPT ![w] = "sleep"]
    ELSE IF attempt[w] < MAX_RETRIES
    THEN /\ OnStatus(item[w], "orange", "retry", attempt[w])
         /\ delay' = [delay EXCEPT ![w] = StandardDelay(attempt[w])]
         /\ pc' = [pc EXCEPT ![w] = "sleep"]
    ELSE /\ IF item[w] = None
            THEN UNCHANGED << status_flip, red_status, status_log >>
            ELSE OnStatus(item[w], "red", "failed", MAX_RETRIES)
         /\ delay' = delay
         /\ pc' = [pc EXCEPT ![w] = "except"]

\* The environment: the Fetcher call of worker w ends with `out`; its failures
\* are counted, in all and per job and class.
FetcherReturns(w, out) ==
    /\ out # "ok" => fails < budget.fails
    /\ fails' = IF out = "ok" THEN fails ELSE fails + 1
    /\ transient_fails' = IF out = "Transient"
                          THEN [transient_fails EXCEPT ![item[w]] = @ + 1] ELSE transient_fails
    /\ rate_fails' = IF out = "RateLimited"
                     THEN [rate_fails EXCEPT ![item[w]] = @ + 1] ELSE rate_fails

\* The top of an attempt without the test of state.cancelled (lines 363-365
\* dropped).
AttemptTopUnchecked(w) ==
    /\ pc[w] = "attempt"
    /\ IF item[w] = None
       THEN /\ AttemptFailed(w, "Transient")
            /\ UNCHANGED << current_download, aborts, attempts >>
       ELSE /\ current_download' = item[w]
            /\ aborts' = 0
            /\ attempts' = [attempts EXCEPT ![item[w]] = @ + 1]
            /\ pc' = [pc EXCEPT ![w] = "extract"]
            /\ UNCHANGED << delay, status_flip, red_status, status_log >>
    /\ UNCHANGED << queueVars, jobVars, queue_lock, stateVars, current_item,
                    item, attempt, observer_calls, completes, fails, cancelVars, exiting, invalid, configVars,
                    hookVars, part_files, enqueued_running,
                    log_empty_start, ghostVars, left_by, budget,
                    popped, failVars >>

\* lines 362-370, the top of an attempt: return if cancelled; build_ydl_opts
\* (a TypeError on item = None, caught by the except clause like any failure);
\* then the YoutubeDL handle is stored and extract_info is entered.
AttemptTop(w) ==
    /\ pc[w] = "attempt"
    /\ IF cancelled
       THEN /\ pc' = [pc EXCEPT ![w] = "clear_item"]
            /\ UNCHANGED << current_download, aborts, attempts, delay, status_flip, red_status, status_log >>
       ELSE IF item[w] = None
       THEN /\ AttemptFailed(w, "Transient")
            /\ UNCHANGED << current_download, aborts, attempts >>
       ELSE /\ current_download' = item[w]
            /\ aborts' = 0
            /\ attempts' = [attempts EXCEPT ![item[w]] = @ + 1]
            /\ pc' = [pc EXCEPT ![w] = "extract"]
            /\ UNCHANGED << delay, status_flip, red_status, status_log >>
    /\ UNCHANGED << queueVars, jobVars, queue_lock, stateVars, current_item,
                    item, attempt, observer_calls, completes, fails, cancelVars, exiting, invalid, configVars,
                    hookVars, part_files, enqueued_running,
                    log_empty_start, ghostVars, left_by, budget,
                    popped, failVars >>

\* lines 373-383: ydl.extract_info returns (then the "Downloading" status) or
\* raises: 'Video unavailable' -> red status and return; anything else -> except.
\* When it returns ydl.download starts and writes a '*.part' file into
\* item['path'].
ExtractInfo(w, out) ==
    /\ pc[w] = "extract"
    /\ FetcherReturns(w, out)
    /\ part_files' = IF budget.disk /\ out = "ok" THEN part_files \cup {item[w]} ELSE part_files
    /\ CASE out = "ok" ->
              /\ OnStatus(item[w], "black", "downloading", 0)
              /\ pc' = [pc EXCEPT ![w] = "download"]
              /\ delay' = delay
              /\ outcome' = outcome
         [] out = "VideoUnavailable" ->
              /\ OnStatus(item[w], "red", "unavailable", 0)
              /\ pc' = [pc EXCEPT ![w] = "clear_item"]
              /\ delay' = delay
              /\ outcome' = [outcome EXCEPT ![item[w]] = "failed"]
         [] OTHER -> AttemptFailed(w, out) /\ outcome' = outcome
    /\ UNCHANGED << queueVars, jobVars, queue_lock, stateVars, current_item, current_download,
                    item, attempt, observer_calls, completes, attempts, cancelVars,
                    exiting, aborts, invalid, configVars, hookVars, enqueued_running,
                    log_empty_start, add_result, remove_error, left_by, budget,
                    popped >>

\* lines 386-392: ydl.download returns (green status, return) or raises.
\* yt-dlp renames the '*.part' file when the transfer is complete and leaves it
\* when the transfer fails.
Download(w, out) ==
    /\ pc[w] = "download"
    /\ FetcherReturns(w, out)
    /\ part_files' = IF out = "ok" THEN part_files \ {item[w]} ELSE part_files
    /\ IF out = "ok"
       THEN /\ OnStatus(item[w], "green", "success", 0)
            /\ pc' = [pc EXCEPT ![w] = "clear_item"]
            /\ delay' = delay
            /\ outcome' = [outcome EXCEPT ![item[w]] = "complete"]
       ELSE AttemptFailed(w, out) /\ outcome' = outcome
    /\ UNCHANGED << queueVars, jobVars, queue_lock, stateVars, current_item, current_download,
                    item, attempt, observer_calls, completes, attempts, cancelVars,
                    exiting, aborts, invalid, configVars, hookVars, enqueued_running,
                    log_empty_start, add_result, remove_error, left_by, budget,
                    popped >>

\* lines 402/409 and the for statement: time.sleep(delay) goes on for the
\* whole delay, whatever state.cancelled is; when it returns the loop
\* goes to the next attempt, or is exhausted (after a 429 on the last attempt,
\* whose continue ends the loop) and run_download returns None.
Sleep(w) ==
    /\ pc[w] = "sleep"
    /\ delay' = [delay EXCEPT ![w] = @ - Min(@, budget.tick)]
    /\ IF delay'[w] > 0
       THEN UNCHANGED << attempt, pc >>
       ELSE IF attempt[w] < MAX_RETRIES
       THEN /\ attempt' = [attempt EXCEPT ![w] = @ + 1]
            /\ pc' = [pc EXCEPT ![w] = "attempt"]
       ELSE /\ attempt' = attempt
            /\ pc' = [pc EXCEPT ![w] = "clear_item"]
    /\ UNCHANGED << queueVars, jobVars, queue_lock, stateVars, current_item, current_download,
                    item, notifyVars, envVars, cancelVars, appVars, log_empty_start, ghostVars, left_by,
                    popped >>

\* ------------------------------------------------------------- handle_error
\* lines 346-348 and 496-502, 507-509: the except clause of process_queue
\* reads self.state.current_item (AttributeError on None: the thread dies) and
\* passes it to handle_error, which raises item['retries'] and goes on to
\* requeue, or reports the permanent failure.
HandleError(w) ==
    /\ pc[w] = "except"
    /\ IF current_item = None
       THEN /\ pc' = [pc EXCEPT ![w] = "dead"]
            /\ UNCHANGED << item, retries, status_flip, red_status, status_log, outcome >>
       ELSE IF retries[current_item] < MAX_RETRIES
       THEN /\ retries' = [retries EXCEPT ![current_item] = @ + 1]
            /\ item' = [item EXCEPT ![w] = current_item]
            /\ pc' = [pc EXCEPT ![w] = "requeue"]
            /\ UNCHANGED << status_flip, red_status, status_log, outcome >>
       ELSE /\ OnStatus(current_item, "red", "permanent", 0)
            /\ outcome' = [outcome EXCEPT ![current_item] = "failed"]
            /\ item' = [item EXCEPT ![w] = current_item]
            /\ pc' = [pc EXCEPT ![w] = "clear_item"]
            /\ UNCHANGED retries
    /\ UNCHANGED << queueVars, status, queue_lock, stateVars, current_item, current_download,
                    attempt, delay, observer_calls, completes, envVars, cancelVars, appVars, log_empty_start, add_result, remove_error, left_by,
                    popped >>

\* lines 503-504: with queue_lock: appendleft(item).  No _save_queue_state.
Requeue(w) ==
    /\ pc[w] = "requeue"
    /\ queue_lock = None
    /\ queue_lock' = w
    /\ download_queue' = << item[w] >> \o download_queue
    /\ pc' = [pc EXCEPT ![w] = "unlock_requeue"]
    /\ UNCHANGED << created, queue_state_file, jobVars, stateVars, current_item,
                    current_download, item, attempt, delay, notifyVars, envVars,
                    cancelVars, appVars, log_empty_start, ghostVars, left_by,
                    popped >>

\* line 350: self.state.current_item = None
ClearCurrentItem(w) ==
    /\ pc[w] = "clear_item"
    /\ current_item' = None
    /\ pc' = [pc EXCEPT ![w] = "while"]
    /\ UNCHANGED << queueVars, jobVars, queue_lock, stateVars, current_download,
                    item, attempt, delay, notifyVars, envVars, cancelVars, appVars, log_empty_start, ghostVars, left_by,
                    popped >>

\* line 352: self.state.update_state(False)
LeaveLoop(w) ==
    /\ pc[w] = "update_state"
    /\ UpdateState(FALSE, FALSE)
    /\ pc' = [pc EXCEPT ![w] = "on_complete"]
    /\ UNCHANGED << queueVars, jobVars, queue_lock, current_item, current_download,
                    item, attempt, delay, status_flip, red_status, status_log, completes,
                    envVars, cancelVars, appVars, log_empty_start, ghostVars, left_by,
                    popped >>

\* lines 353-355: self.on_complete(not self.state.cancelled)
OnComplete(w) ==
    /\ pc[w] = "on_complete"
    /\ completes' = [completes EXCEPT ![w] = Append(@, ~cancelled)]
    /\ status_log' = Logged([kind |-> IF cancelled THEN "complete_false" ELSE "complete_true",
                             job |-> None, n |-> 0])
    /\ pc' = [pc EXCEPT ![w] = "done"]
    /\ UNCHANGED << queueVars, jobVars, queue_lock, stateVars, current_item, current_download,
                    item, attempt, delay, observer_calls, status_flip, red_status,
                    envVars, cancelVars, appVars, log_empty_start, ghostVars, left_by,
                    popped >>

\* ---------------------------------------------------------------------- Next
Next ==
    \/ AddToQueue
    \/ \E index \in -1..Max(MaxJobs, RaceJobs) : RemoveFromQueue(index)
    \/ ClearQueue
    \/ StartDownload
    \/ \E abort_ok \in BOOLEAN : CancelDownload(abort_ok)
    \/ Cleanup
    \/ \E w \in Workers : While(w)
    \/ \E w \in Workers : Dequeue(w)
    \/ \E w \in Workers : Unlock(w)
    \/ \E w \in Workers : CallRunDownload(w)
    \/ \E w \in Workers : AttemptTop(w)
    \/ \E w \in Workers : \E out \in ExtractOutcomes : ExtractInfo(w, out)
    \/ \E w \in Workers : \E out \in DownloadOutcomes : Download(w, out)
    \/ \E w \in Workers : Sleep(w)
    \/ \E w \in Workers : HandleError(w)
    \/ \E w \in Workers : Requeue(w)
    \/ \E w \in Workers : ClearCurrentItem(w)
    \/ \E w \in Workers : LeaveLoop(w)
    \/ \E w \in Workers : OnComplete(w)

Spec == Init /\ [][Next]_vars

SpecRace == InitRace /\ [][Next]_vars

SpecLog == InitLog /\ [][Next]_vars

InitApp ==
    /\ Constructed(DefaultConfigFile)
    /\ HookIdle
    /\ InitWith([jobs |-> AppJobs, starts |-> AppStarts, cancels |-> AppCancels,
                 fails |-> AppFails, removes |-> AppRemoves, invalid |-> AppInvalid,
                 tick |-> AppSleepStep, exit_busy |-> AppExitWhileBusy, disk |-> TRUE, log |-> FALSE],
                PersistedFiles(MaxLoaded))

SpecApp == InitApp /\ [][Next]_vars

\* Specification SpecDrain: started workers keep running (a thread that can
\* take a step is scheduled in the end, and every Fetcher call and sleep
\* returns).
DrainJobs == 1
DrainStarts == 2
DrainCancels == 1
DrainFails == 3
DrainRemoves == 0
DrainInvalid == 0
DrainSleepStep == 300
DrainExitWhileBusy == FALSE

InitDrain ==
    /\ Constructed(DefaultConfigFile)
    /\ HookIdle
    /\ InitWith([jobs |-> DrainJobs, starts |-> DrainStarts, cancels |-> DrainCancels,
                 fails |-> DrainFails, removes |-> DrainRemoves, invalid |-> DrainInvalid,
                 tick |-> DrainSleepStep, exit_busy |-> DrainExitWhileBusy,
                 disk |-> FALSE, log |-> FALSE],
                PersistedFiles(0))

\* A step of the thread of worker w.
WorkerStep(w) ==
    \/ While(w)
    \/ Dequeue(w)
    \/ Unlock(w)
    \/ CallRunDownload(w)
    \/ AttemptTop(w)
    \/ \E out \in ExtractOutcomes : ExtractInfo(w, out)
    \/ \E out \in DownloadOutcomes : Download(w, out)
    \/ Sleep(w)
    \/ HandleError(w)
    \/ Requeue(w)
    \/ ClearCurrentItem(w)
    \/ LeaveLoop(w)
    \/ OnComplete(w)

SpecDrain == InitDrain /\ [][Next]_vars /\ \A w \in Workers : WF_vars(WorkerStep(w))

\* ------------------------------------------------- load_config on its own
\* Before __init__: any config file on disk, nothing loaded, nothing started.
InitConfig ==
    /\ HookIdle
    /\ config_file \in ConfigFiles
    /\ config = Unloaded
    /\ InitWith([jobs |-> 0, starts |-> 0, cancels |-> 0, fails |-> 0, removes |-> 0,
                 invalid |-> 0, tick |-> SleepStep, exit_busy |-> ExitWhileBusy, disk |-> FALSE, log |-> FALSE],
                PersistedFiles(0))

\* __init__ line 130: self.config = self.load_config()
LoadConfig ==
    /\ config = Unloaded
    /\ config' = LoadConfigResult(config_file)
    /\ UNCHANGED << queueVars, jobVars, queue_lock, stateVars, current_item, current_download,
                    workerVars, notifyVars, envVars, cancelVars, log_empty_start, ghostVars,
                    exiting, aborts, invalid, config_file, hookVars, part_files,
                    enqueued_running >>

NextConfig == LoadConfig

\* ------------------------------------------------ progress_hook on its own
\* A constructed manager and a progress event yt-dlp is about to deliver.
InitProgress ==
    /\ Constructed(DefaultConfigFile)
    /\ progress_event \in ProgressEvents
    /\ progress_call = NoCall
    /\ InitWith([jobs |-> 0, starts |-> 0, cancels |-> 0, fails |-> 0, removes |-> 0,
                 invalid |-> 0, tick |-> SleepStep, exit_busy |-> ExitWhileBusy,
                 disk |-> FALSE, log |-> FALSE],
                PersistedFiles(0))

\* yt-dlp calls progress_hook(d).
ProgressHook ==
    /\ progress_call = NoCall
    /\ progress_event # NoEvent
    /\ progress_call' = ProgressHookResult(progress_event)
    /\ UNCHANGED << queueVars, jobVars, queue_lock, stateVars, current_item, current_download,
                    workerVars, notifyVars, envVars, cancelVars, log_empty_start, ghostVars,
                    exiting, aborts, invalid, configVars, progress_event, part_files,
                    enqueued_running >>

NextProgress == ProgressHook

SpecProgress == InitProgress /\ [][NextProgress]_vars

SpecConfig == InitConfig /\ [][NextConfig]_vars

\* ==================================================================== claims

\* C1 (as claimed): at most one worker thread is inside run_download, in a
\* Fetcher call or a backoff sleep, at any instant.
SingleFlight ==
    Cardinality({ w \in Workers : pc[w] \in {"extract", "download", "sleep"} }) <= 1

\* C2 (as claimed): start_download while an earlier worker has not returned
\* from process_queue spawns no thread, leaves downloading/cancelled alone and
\* notifies no observer.
StartWhileActiveIsNoOp ==
    [][ (StartDownload /\ \E w \in Workers : Active(w))
            => UNCHANGED << pc, downloading, cancelled, observer_calls >> ]_vars

\* C3 (as claimed): the job a worker runs (and hands to handle_error) is the
\* job that worker popped, and no job is in run_download on two threads.
JobOwnedByOneWorker ==
    /\ \A w \in Workers : InRunDownload(w) \/ pc[w] = "requeue" => item[w] = popped[w]
    /\ \A v, w \in Workers : v # w /\ InRunDownload(v) /\ InRunDownload(w) => item[v] # item[w]

\* C4 (as claimed): a worker makes exactly one on_complete call when its loop
\* ends: never two, and none is missing once the thread has ended.
ExactlyOneCompletion ==
    \A w \in Workers :
        /\ Len(completes[w]) <= 1
        /\ pc[w] \in {"done", "dead"} => Len(completes[w]) = 1

\* C5 (as claimed): on_complete gets False when the loop ended because of
\* cancel_download, and True when it ended on an empty queue with no cancel.
CompletionCarriesCause ==
    \A w \in Workers : Len(completes[w]) = 1 =>
        /\ left_by[w] = "cancelled" => completes[w][1] = FALSE
        /\ left_by[w] = "exhausted" /\ cancels = 0 => completes[w][1] = TRUE

\* C6 (as claimed): once cancel_download has arrived while a worker was
\* mid-attempt, that worker pops no further job and reports on_complete at
\* most once.
NoDequeueAfterCancel ==
    [][ \A w \in Workers : cancel_mid[w] =>
            /\ ~(pc[w] = "lock" /\ pc'[w] = "unlock_pop")
            /\ Len(completes'[w]) <= 1 ]_vars

\* C7 (as claimed): a job all of whose attempts fail with a non-rate-limit
\* error is attempted MAX_RETRIES times in all, never more.
AtMostMaxRetriesAttempts ==
    \A j \in JobIds : transient_fails[j] = attempts[j] => attempts[j] <= MAX_RETRIES

\* A job is in the system: queued, or in the hands of a worker between its
\* popleft and the end of its run_download / handle_error.
InSystem(j) ==
    \/ \E i \in 1..Len(download_queue) : download_queue[i] = j
    \/ \E w \in Workers : /\ pc[w] \in {"unlock_pop", "call_run"}
                          /\ popped[w] = j
    \/ \E w \in Workers : /\ pc[w] \in {"attempt", "extract", "download", "sleep",
                                        "except", "requeue", "unlock_requeue"}
                          /\ item[w] = j

\* C8 (as claimed): with no cancel issued, a job whose attempts all failed with
\* the rate-limit signal is still being retried: it has not left the system.
RateLimitedNeverEnds ==
    \A j \in JobIds :
        (cancels = 0 /\ attempts[j] > 0 /\ rate_fails[j] = attempts[j]) => InSystem(j)

\* C9 (as claimed): no job's failure is reported twice: at most one terminal
\* (red) on_status per job over its whole lifetime.
NoFailureReportedTwice ==
    \A j \in JobIds : red_status[j] <= 1

\* C10: start_download on an empty download_queue spawns no worker, leaves
\* DownloadState as it is, notifies no observer and fires neither on_status
\* nor on_complete.
StartOnEmptyIsNoOp ==
    [][ (StartDownload /\ download_queue = << >>)
            => UNCHANGED << pc, downloading, cancelled, observer_calls,
                            status_flip, red_status, completes >> ]_vars

\* C10 witness: start_download has returned on an empty queue (its log line is
\* written) with no thread ever started and no observer ever notified.
StartedOnEmptyQueue ==
    /\ log_empty_start
    /\ download_queue = << >>
    /\ Spawned = {}
    /\ observer_calls = 0

\* C11 (as claimed): cancel_download while the engine is Idle (no worker
\* active, both flags False) changes neither flag, notifies no observer and
\* fires no on_status.
CancelWhileIdleIsNoOp ==
    [][ ( /\ \E abort_ok \in BOOLEAN : CancelDownload(abort_ok)
          /\ EngineState = "Idle"
          /\ \A w \in Workers : ~Active(w) )
            => UNCHANGED << downloading, cancelled, observer_calls, status_flip, status_log >> ]_vars

\* The job records a fresh process rebuilds from a snapshot equal the job
\* objects `q` holds, in order, leaving out those whose status is 'Complete'.
NotCompleteJob(j) == status[j] # "Complete"
ReloadsAs(file, q) ==
    LoadQueueState(file) = Snapshot(SelectSeq(q, NotCompleteJob))

\* C12: every add_to_queue appends the new job at the tail, returns True, and
\* leaves a snapshot that _load_queue_state reads back as the same jobs in the
\* same order (entries marked 'Complete' excluded).
EnqueueRoundTrip ==
    [][ AddToQueue =>
            /\ download_queue' = Append(download_queue, created')
            /\ add_result' = "True"
            /\ LoadQueueState(queue_state_file') =
                   [ i \in 1..Len(SelectSeq(download_queue', NotCompleteJob)) |->
                       [id |-> SelectSeq(download_queue', NotCompleteJob)[i],
                        retries |-> retries'[SelectSeq(download_queue', NotCompleteJob)[i]],
                        status |-> status'[SelectSeq(download_queue', NotCompleteJob)[i]]] ] ]_vars

\* C12 witness: add_to_queue has returned True with a new job behind one that
\* carries a 'retries' key, and the snapshot reloads as both, in order.
EnqueuedBehindRetriedJob ==
    /\ add_result = "True"
    /\ Len(download_queue) = 2
    /\ retries[download_queue[1]] > 0
    /\ status[download_queue[2]] = "absent"
    /\ ReloadsAs(queue_state_file, download_queue)

\* C13 (as claimed): whenever queue_lock is free, the persisted snapshot
\* reloads as exactly the in-memory download_queue.
PersistedAfterEveryMutation ==
    queue_lock = None => ReloadsAs(queue_state_file, download_queue)

\* Reference removal of the element at 0-based position index.
RemoveAt(q, index) == SubSeq(q, 1, index) \o SubSeq(q, index + 2, Len(q))

\* C14 (as claimed): remove_from_queue(index) with an index in range removes
\* exactly the job at that position, persists the new snapshot and returns
\* normally; with an index out of range it changes neither queue nor snapshot.
RemoveFromQueueIsRemoveAt ==
    [][ \A index \in -1..Max(MaxJobs, RaceJobs) : RemoveFromQueue(index) =>
            IF 0 <= index /\ index < Len(download_queue)
            THEN /\ download_queue' = RemoveAt(download_queue, index)
                 /\ ReloadsAs(queue_state_file', download_queue')
                 /\ remove_error' = remove_error
            ELSE UNCHANGED << download_queue, queue_state_file >> ]_vars

\* C15 (as claimed): no entry persisted as 'Complete' is loaded, and every
\* loaded entry (one that carries a status key) has status Queued.
LoadedAsQueued ==
    \A i \in 1..Len(download_queue) :
        status[download_queue[i]] # "absent" => status[download_queue[i]] = "Queued"

\* Job j was put into download_queue by add_to_queue.
Admitted(j) == j <= created /\ status[j] = "absent"

\* C16 (as claimed, a job in a worker's hands counted as present): a job
\* admitted by add_to_queue and not removed is in the queue or in flight if
\* and only if it has not reached a terminal outcome.
MembershipInvariant ==
    \A j \in JobIds :
        (Admitted(j) /\ outcome[j] # "removed") =>
            (InSystem(j) <=> outcome[j] \notin {"complete", "failed"})

\* Job j has been in download_queue (loaded or added).
Enqueued(j) == j <= created /\ status[j] # "Complete"

\* C17 (as claimed): of two jobs neither of which is removed, the one enqueued
\* later is not attempted until the earlier one has reached a terminal outcome.
StrictFifo ==
    \A a, b \in JobIds :
        ( /\ a < b /\ Enqueued(a) /\ Enqueued(b)
          /\ outcome[a] # "removed" /\ outcome[b] # "removed"
          /\ attempts[b] > 0 )
            => outcome[a] \in {"complete", "failed"}

\* The scenario of C18 has run to its end: jobs 1 and 2 added, one
\* start_download, no cancel; job 1 failed twice with a transient error and
\* then succeeded, job 2 succeeded at once; the worker has returned.
FailsTwiceThenSucceeds ==
    /\ created = 2 /\ cancels = 0 /\ fails = 2
    /\ transient_fails[1] = 2 /\ transient_fails[2] = 0
    /\ outcome[1] = "complete" /\ outcome[2] = "complete"
    /\ attempts[1] = 3 /\ attempts[2] = 1
    /\ pc[1] = "done"

\* C18 (as claimed): in that scenario the notifications are, in order,
\* downloading(1), retry 1, retry 2, success(1), downloading(2), success(2),
\* on_complete(True), and download_queue is empty.
NotificationOrder ==
    FailsTwiceThenSucceeds =>
        /\ status_log = << [kind |-> "downloading", job |-> 1, n |-> 0],
                           [kind |-> "retry", job |-> 1, n |-> 1],
                           [kind |-> "retry", job |-> 1, n |-> 2],
                           [kind |-> "success", job |-> 1, n |-> 0],
                           [kind |-> "downloading", job |-> 2, n |-> 0],
                           [kind |-> "success", job |-> 2, n |-> 0],
                           [kind |-> "complete_true", job |-> None, n |-> 0] >>
        /\ download_queue = << >>

\* C19 (as claimed): a job that failed for good with every attempt reported
\* unavailable by the Fetcher was attempted MAX_RETRIES times and had exactly
\* one terminal failure status.
UnavailableFollowsRetryArithmetic ==
    \A j \in JobIds :
        ( /\ outcome[j] = "failed" /\ cancels = 0
          /\ transient_fails[j] = 0 /\ rate_fails[j] = 0 )
            => attempts[j] = MAX_RETRIES /\ red_status[j] = 1

\* C20 (as claimed): the engine state changes only along Idle -> Running,
\* Running -> Idle, Running -> Cancelling and Cancelling -> Idle, and leaves
\* Cancelling only when a worker leaves its loop.
EngineTransitions ==
    [][ EngineState' # EngineState =>
            /\ << EngineState, EngineState' >> \in
                   { << "Idle", "Running" >>, << "Running", "Idle" >>,
                     << "Running", "Cancelling" >>, << "Cancelling", "Idle" >> }
            /\ EngineState = "Cancelling" => \E w \in Workers : LeaveLoop(w) ]_vars

\* C21: when state.cancelled is set at the top of an attempt, run_download
\* returns to process_queue (line 350 is next, not the except clause): no
\* Fetcher call is entered, no status is emitted, the job is not requeued and
\* its retry count is left alone.
CancelledAttemptReturns ==
    [][ \A w \in Workers : (AttemptTop(w) /\ cancelled) =>
            /\ pc'[w] = "clear_item"
            /\ UNCHANGED << attempts, fails, current_download, status_flip, red_status,
                            status_log, download_queue, retries >> ]_vars

\* A worker whose first attempt failed found the flag set at the top of its
\* second attempt: one Fetcher attempt was made, and run_download has returned.
CancelledAtSecondAttempt ==
    \E w \in Workers :
        /\ pc[w] = "clear_item" /\ cancelled
        /\ item[w] # None /\ attempt[w] = 2 /\ attempts[item[w]] = 1
        /\ outcome[item[w]] = "none" /\ ~InQueue(item[w])

\* C22 (as claimed): a backoff sleep is interruptible: once state.cancelled is
\* set, the next polling step of a thread in a backoff sleep ends the sleep.
BackoffInterruptible ==
    [][ \A w \in Workers :
            (cancelled /\ pc[w] = "sleep" /\ Sleep(w)) => pc'[w] # "sleep" ]_vars

\* The stored YoutubeDL handle is in a transfer: its thread is in extract_info
\* or download.
TransferActive ==
    \E w \in Workers : InFetcher(w) /\ item[w] = current_download

\* C23 (as claimed): an abort is requested of a handle only while its
\* transfer is active, and at most once per handle, however cancel_download and
\* cleanup calls follow each other.
AbortOncePerActiveTransfer ==
    [][ aborts' > aborts => (aborts' <= 1 /\ TransferActive) ]_vars

\* C24 (as claimed): a step that changes download_queue or snapshots it into
\* the queue-state file (cleanup's _save_queue_state included) is taken by a
\* thread that holds queue_lock: no other thread holds the lock at that step.
QueueAccessHoldsLock ==
    [][ (Cleanup \/ download_queue' # download_queue
                 \/ queue_state_file' # queue_state_file) => queue_lock = None ]_vars

\* C25 (as claimed): a job whose destination or tool path fails validation is
\* rejected at admission: it is never in the deque and never given to
\* run_download.
InvalidJobRejected ==
    \A j \in JobIds : j \in invalid => ~InQueue(j) /\ attempts[j] = 0

\* C26 (as claimed): whatever the config file holds, the config load_config
\* returns has each media option inside its closed set: the stored value when
\* that is valid, else the default, each field on its own.
LoadConfigValid ==
    config # Unloaded =>
        /\ config.media_type = ValidateValue(config_file.media_type, MEDIA_TYPES, "Video")
        /\ config.video_resolution =
               ValidateValue(config_file.video_resolution, VIDEO_QUALITIES, "Best")
        /\ config.audio_quality =
               ValidateValue(config_file.audio_quality, AUDIO_QUALITIES, "128k")
        /\ config.audio_format = ValidateValue(config_file.audio_format, AUDIO_FORMATS, "mp3")

\* C27 (as claimed): while a job is in the system nothing lowers its
\* item['retries']: no step of the manager does, each requeue by handle_error
\* raises it by exactly one, and the count a reload would read for a queued
\* job from the persisted snapshot is not below the count in memory.
RetriesNeverLowered ==
    [][ \A j \in JobIds :
            /\ InSystem(j) => retries'[j] >= retries[j]
            /\ (\E w \in Workers : HandleError(w) /\ current_item = j /\ pc'[w] = "requeue")
                   => retries'[j] = retries[j] + 1
            /\ \A i \in 1..Len(LoadQueueState(queue_state_file')) :
                   ( /\ LoadQueueState(queue_state_file')[i].id = j
                     /\ \E k \in 1..Len(download_queue') : download_queue'[k] = j )
                       => LoadQueueState(queue_state_file')[i].retries >= retries'[j] ]_vars

\* C28 (as claimed): the delay slept after a job's n-th rate-limited attempt
\* is min(60 * n, 300), n counting the job's rate-limited attempts or all its
\* attempts.
RateLimitDelayByAttemptCount ==
    [][ \A w \in Workers : \A j \in JobIds :
            (item[w] = j /\ rate_fails'[j] = rate_fails[j] + 1) =>
                /\ pc'[w] = "sleep"
                /\ delay'[w] \in { RateLimitDelay(rate_fails'[j]), RateLimitDelay(attempts[j]) } ]_vars

\* C29 (as claimed): a non-rate-limit failure of attempt n is followed by a
\* sleep of RETRY_DELAY * n when n < MAX_RETRIES; when n >= MAX_RETRIES there
\* is no sleep and the job's outcome is the permanent failure.
StandardBackoffThenPermanentFailure ==
    [][ \A w \in Workers :
            /\ \A j \in JobIds :
                   (item[w] = j /\ transient_fails'[j] = transient_fails[j] + 1) =>
                       IF attempt[w] < MAX_RETRIES
                       THEN pc'[w] = "sleep" /\ delay'[w] = StandardDelay(attempt[w])
                       ELSE pc'[w] = "except" /\ delay'[w] = 0
            /\ (HandleError(w) /\ current_item # None)
                   => outcome'[current_item] = "failed" ]_vars

\* C30: no thread holds queue_lock while it is inside a Fetcher call
\* (extract_info, download) or in a backoff sleep.
LockFreeDuringTransfer ==
    \A w \in Workers : (InFetcher(w) \/ pc[w] = "sleep") => queue_lock # w

\* A worker is in the rate-limit backoff of its second attempt, a job waits in
\* the deque, and queue_lock is free.
SleepingWithLockFree ==
    \E w \in Workers :
        /\ pc[w] = "sleep" /\ attempt[w] = 2 /\ delay[w] = RateLimitDelay(2)
        /\ download_queue # << >> /\ queue_lock = None

\* The total progress_hook works with is missing: total_bytes and
\* total_bytes_estimate are each absent, None or 0.
TotalMissing(d) == ~Truthy(d.total_bytes) /\ ~Truthy(d.total_bytes_estimate)

\* C31 (as claimed): for a 'downloading' event progress_hook forwards
\* on_progress: with percent 0 when the total size is absent, None or 0, and
\* with downloaded / total * 100, inside 0..100, when the total is positive.
ProgressTolerant ==
    (progress_call # NoCall /\ progress_event.status = "downloading") =>
        /\ progress_call.kind = "on_progress"
        /\ progress_call.percent \in 0..100
        /\ TotalMissing(progress_event) => progress_call.percent = 0
        /\ Truthy(progress_event.total_bytes) =>
               progress_call.percent =
                   (GetDefault(progress_event.downloaded_bytes, Num(0)).n * 100)
                       \div progress_event.total_bytes.n

\* C32 (as claimed): a cancel_download that arrives while a transfer is in
\* flight removes the interrupted job's partial files and emits the 'Download
\* cancelled' status, whether the abort call succeeds or raises.
CancelCleansUp ==
    [][ ( /\ cancels' = cancels + 1
          /\ current_item # None
          /\ \E w \in Workers : pc[w] = "download" /\ item[w] = current_item )
            => /\ current_item \notin part_files'
               /\ status_flip' # status_flip ]_vars

\* C33 (as claimed): a job that was in a worker's hands when the worker left
\* its loop on cancellation is back in download_queue or has a terminal
\* outcome.
InFlightJobNotLost ==
    \A w \in Workers :
        (pc[w] = "done" /\ left_by[w] = "cancelled" /\ popped[w] # None) =>
            InQueue(popped[w]) \/ outcome[popped[w]] # "none"

\* C34 (as claimed): a start_download issued while a cancellation is pending
\* for a worker that has not yet left its loop leaves state.cancelled set.
CancellationSurvivesRestart ==
    [][ ( /\ StartDownload
          /\ cancelled
          /\ \E w \in Workers : Active(w) /\ left_by[w] = "none" ) => cancelled' ]_vars

\* C35 (as claimed): every drain terminates: no job is attempted more than
\* MAX_RETRIES * (MAX_RETRIES + 1) times, and every started worker leaves its
\* loop and emits on_complete.
DrainTerminates ==
    /\ [](\A j \in JobIds : attempts[j] <= MAX_RETRIES * (MAX_RETRIES + 1))
    /\ \A w \in Workers : Active(w) ~> (pc[w] = "done" /\ Len(completes[w]) = 1)

\* C36 (as claimed): when, with no cancel issued, a worker has reported
\* on_complete(True) and the state is Idle, download_queue holds no job that
\* add_to_queue took while the state was Running.
NoStrandedJob ==
    ( /\ EngineState = "Idle" /\ cancels = 0
      /\ \E w \in Workers : pc[w] = "done" /\ completes[w] = << TRUE >> )
        => \A j \in enqueued_running : ~InQueue(j)

\* C37 (as claimed): once run_download has reported success for a job, a
\* fresh DownloadManager that loads the persisted snapshot does not get it.
CompletedJobNotReloaded ==
    \A j \in JobIds :
        outcome[j] = "complete" =>
            \A i \in 1..Len(LoadQueueState(queue_state_file)) :
                LoadQueueState(queue_state_file)[i].id # j

====
